---- MODULE Spec2Model ----
(***************************************************************************)
(* State-machine model of EnhancedSDWANController                         *)
(* (sdwan-multisites/controller.py): the monitor loop (sleep, probe every  *)
(* path, detect anomalies, classify, fail over) and the OpenFlow event     *)
(* handlers (switch connect, port status, packet-in) that run between the  *)
(* monitor's suspension points.                                            *)
(*                                                                         *)
(* Time is counted in whole seconds.  Latency is in whole milliseconds and *)
(* loss in whole percent.  The quality score is kept as an integer equal   *)
(* to QScale times the score the code computes, which is exact for integer *)
(* latency and loss.  The 'timestamp' fields of measurements are written   *)
(* by the code but never read back by it and are left out.                 *)
(***************************************************************************)
EXTENDS Integers, Sequences, FiniteSets, TLC

VARIABLES
    now,                  \* time.time(), in seconds
    pc,                   \* position of the monitor green thread
    idx,                  \* index in `paths` of the probe in progress
    cycle,                \* _monitor_loop's cycle counter
    datapaths,            \* self.datapaths (its key set)
    mac_to_port,          \* self.mac_to_port
    path_metrics,         \* self.path_metrics
    performance_history,  \* self.performance_history
    anomaly_counts,       \* self.anomaly_counts
    active_paths,         \* self.active_paths (the mutable fields)
    net,                  \* environment: what a probe of each path finds now
    net_changes,          \* environment: how often the network has changed
    port_events,          \* environment: port-status messages delivered so far
    log_file,             \* entries _log_event appended during the latest step
    sent,                 \* messages handed to send_msg during the latest step
    last_step,            \* which handler or monitor step ran latest
    last_recalc,          \* when _recalculate_and_install_flows last ran, per path (0: never)
    switch_before,        \* last_switch of each path as the latest step found it
    measured,             \* every measurement taken of each path, in the order taken
    faults,               \* component errors met since the current cycle started
    send_result,          \* what became of the delete commands of the latest step
    last_pkt,             \* the packet the latest step handled, if it was a packet-in
    measured_in,          \* the cycle that stored path_metrics[p] (0: none yet)
    detected_on           \* the cycle and the histories of the latest anomaly check

vars == <<now, pc, idx, cycle, datapaths, mac_to_port, path_metrics,
          performance_history, anomaly_counts, active_paths, net, net_changes,
          port_events, log_file, sent, last_step, last_recalc, switch_before,
          measured, faults, send_result, last_pkt, measured_in, detected_on>>

-----------------------------------------------------------------------------
(* Bounds of the model *)

MaxCycles == 6
MaxNetChanges == 2
MaxPortEvents == 1
MaxConnectCycle == 0
MaxLongCycles == 22
StartTime == 100

-----------------------------------------------------------------------------
(* Program constants *)

LATENCY_THRESHOLD == 50
LOSS_THRESHOLD == 5
LATENCY_CRITICAL == 100
FAILOVER_COOLDOWN == 30
HISTORY_CAP == 20
ANOMALY_WINDOW == 5
INITIAL_SLEEP == 5
MONITOR_PERIOD == 10
SAVE_EVERY == 3
UNREACHABLE_LATENCY == 999
UNREACHABLE_LOSS == 100
QScale == 20

None == "None"
NoMatch == -1

\* the order of `paths` in _measure_all_paths, which is also the insertion
\* order of active_paths, performance_history and path_metrics
PathNames == <<"HQ-to-Site1", "HQ-to-Site2", "HQ-to-Site3">>

PathSet == {PathNames[i] : i \in 1..Len(PathNames)}

hq_dpid(p) == 1

site_dpid(p) ==
    CASE p = "HQ-to-Site1" -> 2
      [] p = "HQ-to-Site2" -> 3
      [] p = "HQ-to-Site3" -> 4

site_ip(p) ==
    CASE p = "HQ-to-Site1" -> "10.2.1.10"
      [] p = "HQ-to-Site2" -> "10.3.1.10"
      [] p = "HQ-to-Site3" -> "10.4.1.10"

Max(a, b) == IF a >= b THEN a ELSE b
Min(a, b) == IF a <= b THEN a ELSE b

-----------------------------------------------------------------------------
(* Log entries and flow-mods *)

\* a log entry about a path (arg: the alternative path, or None;
\* alt_status: the status the alternative had when it was selected)
Event(kind, msg, path, arg) ==
    [kind |-> kind, msg |-> msg, path |-> path, arg |-> arg, dpid |-> 0,
     alt_status |-> None]

\* a log entry about a switch
SwitchEvent(kind, msg, dpid) ==
    [kind |-> kind, msg |-> msg, path |-> None, arg |-> None, dpid |-> dpid,
     alt_status |-> None]

\* delete_flows with a match on eth_dst; `path` is the failed path named in the
\* information line logged with it
FlowDelete(dpid, eth_dst, path) ==
    [cmd |-> "DELETE", dpid |-> dpid, eth_dst |-> eth_dst, priority |-> 0,
     path |-> path]

\* add_flow
FlowAdd(dpid, priority, eth_dst) ==
    [cmd |-> "ADD", dpid |-> dpid, eth_dst |-> eth_dst, priority |-> priority,
     path |-> None]

\* the packet-out of _packet_in_handler
PacketOut(dpid, eth_dst) ==
    [cmd |-> "PACKET_OUT", dpid |-> dpid, eth_dst |-> eth_dst, priority |-> 0,
     path |-> None]

-----------------------------------------------------------------------------
(* Quality score and probe *)

\* a score that is not clamped to 0..100
calculate_quality_unclamped(latency, loss) ==
    IF loss = 100 THEN 0
    ELSE (Max(0, 200 - latency) * 6) + ((100 - (loss * 10)) * 8)

\* a score that grows with the latency
calculate_quality_rising(latency, loss) ==
    IF loss = 100 THEN 0
    ELSE Max(0, Min(100 * QScale, (Min(200, latency) * 6) + ((100 - (loss * 10)) * 8)))

\* QScale * _calculate_quality_score(latency, loss)
calculate_quality_score(latency, loss) ==
    IF loss = 100 THEN 0
    ELSE LET latency_score2 == Max(0, 200 - latency)
             loss_score == 100 - (loss * 10)
             score == (latency_score2 * 6) + (loss_score * 8)
         IN  Max(0, Min(100 * QScale, score))

\* a probe that reports no loss when the ping run raised
measure_path_raised_lossless(out) ==
    IF out.exc
    THEN [latency |-> UNREACHABLE_LATENCY, loss |-> 0, available |-> FALSE, quality |-> 0]
    ELSE LET latency == IF out.lat = NoMatch THEN UNREACHABLE_LATENCY ELSE out.lat
             loss == IF out.loss = NoMatch THEN UNREACHABLE_LOSS ELSE out.loss
         IN  [latency |-> latency, loss |-> loss,
              available |-> loss < 100,
              quality |-> calculate_quality_score(latency, loss)]

\* The measurement _measure_path builds from what the ping run gave: out.exc
\* when both runs raised (timeout, no such program, unparsable number),
\* otherwise the regex groups, NoMatch when a regex found nothing.
measure_path(out) ==
    IF out.exc
    THEN [latency |-> UNREACHABLE_LATENCY, loss |-> UNREACHABLE_LOSS,
          available |-> FALSE, quality |-> 0]
    ELSE LET latency == IF out.lat = NoMatch THEN UNREACHABLE_LATENCY ELSE out.lat
             loss == IF out.loss = NoMatch THEN UNREACHABLE_LOSS ELSE out.loss
         IN  [latency |-> latency, loss |-> loss,
              available |-> loss < 100,
              quality |-> calculate_quality_score(latency, loss)]

PingOutput(lat, loss) == [exc |-> FALSE, lat |-> lat, loss |-> loss]
PingRaised == [exc |-> TRUE, lat |-> NoMatch, loss |-> NoMatch]

-----------------------------------------------------------------------------
(* Status classification (_analyze_paths, the if/elif chain) *)

\* The status strings of the code, their pictographs written in ASCII.
\* _handle_tunnel_failure stores the bare 'DOWN'.
STATUS_OK == "[ok] OK"
STATUS_DOWN == "[x] DOWN"
STATUS_CRITICAL == "[red] CRITICAL"
STATUS_HIGH == "[warn] HIGH"
STATUS_LOSS == "[warn] LOSS"
STATUS_TUNNEL_DOWN == "DOWN"
STATUS_UNKNOWN == "unknown"

\* a classification that tests the loss before the high latency
classify_loss_first(metrics) ==
    IF ~metrics.available
    THEN [status |-> STATUS_DOWN, action_needed |-> TRUE]
    ELSE IF metrics.latency > LATENCY_CRITICAL
    THEN [status |-> STATUS_CRITICAL, action_needed |-> TRUE]
    ELSE IF metrics.loss > LOSS_THRESHOLD
    THEN [status |-> STATUS_LOSS, action_needed |-> FALSE]
    ELSE IF metrics.latency > LATENCY_THRESHOLD
    THEN [status |-> STATUS_HIGH, action_needed |-> FALSE]
    ELSE [status |-> STATUS_OK, action_needed |-> FALSE]

\* a classification in which a high latency asks for a failover too
classify_high_acts(metrics) ==
    IF ~metrics.available
    THEN [status |-> STATUS_DOWN, action_needed |-> TRUE]
    ELSE IF metrics.latency > LATENCY_CRITICAL
    THEN [status |-> STATUS_CRITICAL, action_needed |-> TRUE]
    ELSE IF metrics.latency > LATENCY_THRESHOLD
    THEN [status |-> STATUS_HIGH, action_needed |-> TRUE]
    ELSE IF metrics.loss > LOSS_THRESHOLD
    THEN [status |-> STATUS_LOSS, action_needed |-> FALSE]
    ELSE [status |-> STATUS_OK, action_needed |-> FALSE]

classify(metrics) ==
    IF ~metrics.available
    THEN [status |-> STATUS_DOWN, action_needed |-> TRUE]
    ELSE IF metrics.latency > LATENCY_CRITICAL
    THEN [status |-> STATUS_CRITICAL, action_needed |-> TRUE]
    ELSE IF metrics.latency > LATENCY_THRESHOLD
    THEN [status |-> STATUS_HIGH, action_needed |-> FALSE]
    ELSE IF metrics.loss > LOSS_THRESHOLD
    THEN [status |-> STATUS_LOSS, action_needed |-> FALSE]
    ELSE [status |-> STATUS_OK, action_needed |-> FALSE]

\* the FAILOVER entry the classification itself logs, if any
classify_log(p, metrics) ==
    IF ~metrics.available
    THEN <<Event("FAILOVER", "is down - triggering failover", p, None)>>
    ELSE IF metrics.latency > LATENCY_CRITICAL
    THEN <<Event("FAILOVER", "critical latency", p, None)>>
    ELSE <<>>

-----------------------------------------------------------------------------
(* Failover *)

\* the loop of _find_best_alternative_path from the i-th key of path_metrics on
RECURSIVE find_best_from(_, _, _, _, _)
find_best_from(i, failed_path, pm, best_path, best_quality) ==
    IF i > Len(PathNames) THEN best_path
    ELSE LET path_name == PathNames[i] IN
         IF path_name \notin DOMAIN pm \/ path_name = failed_path
         THEN find_best_from(i + 1, failed_path, pm, best_path, best_quality)
         ELSE IF pm[path_name].available /\ pm[path_name].quality > best_quality
         THEN find_best_from(i + 1, failed_path, pm, path_name, pm[path_name].quality)
         ELSE find_best_from(i + 1, failed_path, pm, best_path, best_quality)

\* a selection that takes the first usable path it meets, whatever its quality
find_first_alternative_path(failed_path, pm) ==
    LET usable == {i \in 1..Len(PathNames) :
                      /\ PathNames[i] \in DOMAIN pm
                      /\ PathNames[i] # failed_path
                      /\ pm[PathNames[i]].available
                      /\ pm[PathNames[i]].quality > 0}
    IN  IF usable = {} THEN None
        ELSE PathNames[CHOOSE i \in usable : \A j \in usable : i <= j]

find_best_alternative_path(failed_path, pm) ==
    find_best_from(1, failed_path, pm, None, 0)

\* What datapath.send_msg may do with the delete command handed to it by
\* delete_flows: queue it, or discard it because the connection of the
\* switch is closing.  It tells by its return value, which delete_flows
\* drops.
SEND_QUEUED == "queued"
SEND_DISCARDED == "discarded"
SEND_NONE == "none"

SendOutcomes == {SEND_QUEUED, SEND_DISCARDED}

\* a send_msg that raises when it cannot queue the command
send_msg_raises_when_discarded(send) == send = SEND_DISCARDED

\* delete_flows: whether an exception leaves the call of send_msg.  No
\* handler encloses the call, but send_msg reports a command it could not
\* queue by returning False and raises nothing for a well-formed command.
send_msg_raises(send) == FALSE

\* an orchestration that deletes flows whether or not an address was learned
recalculate_and_delete_unlearned(failed_path_name, pm, ap, dps, send) ==
    LET alternative_path == find_best_alternative_path(failed_path_name, pm)
        failed_path_info == ap[failed_path_name]
        deletes == hq_dpid(failed_path_name) \in dps
    IN  IF alternative_path # None
        THEN [alt |-> alternative_path,
              log |-> <<Event("FAILOVER", "Switching", failed_path_name, alternative_path),
                        Event("FAILOVER", "Successfully failed over",
                              failed_path_name, alternative_path)>>,
              sent |-> IF deletes
                       THEN <<FlowDelete(hq_dpid(failed_path_name),
                                         failed_path_info.site_mac, failed_path_name)>>
                       ELSE <<>>,
              attempted |-> deletes,
              raised |-> FALSE]
        ELSE [alt |-> None,
              log |-> <<Event("FAILOVER", "No alternative", failed_path_name, None)>>,
              sent |-> <<>>,
              attempted |-> FALSE,
              raised |-> FALSE]

\* _recalculate_and_install_flows: what it logs, what it hands to send_msg
\* (attempted: whether it called delete_flows) and whether an exception of
\* send_msg left it (raised), in which case nothing after delete_flows ran.
recalculate_and_install_flows(failed_path_name, pm, ap, dps, send) ==
    LET alternative_path == find_best_alternative_path(failed_path_name, pm)
        failed_path_info == ap[failed_path_name]
        deletes == /\ hq_dpid(failed_path_name) \in dps
                   /\ failed_path_info.site_mac # None
        raised == deletes /\ send_msg_raises(send)
    IN  IF alternative_path # None
        THEN [alt |-> alternative_path,
              log |-> <<[Event("FAILOVER", "Switching", failed_path_name, alternative_path)
                            EXCEPT !.alt_status = ap[alternative_path].status]>>
                      \o (IF raised THEN <<>>
                          ELSE <<Event("FAILOVER", "Successfully failed over",
                                       failed_path_name, alternative_path)>>),
              sent |-> IF deletes
                       THEN <<FlowDelete(hq_dpid(failed_path_name),
                                         failed_path_info.site_mac, failed_path_name)>>
                       ELSE <<>>,
              attempted |-> deletes,
              raised |-> raised]
        ELSE [alt |-> None,
              log |-> <<Event("FAILOVER", "No alternative", failed_path_name, None)>>,
              sent |-> <<>>,
              attempted |-> FALSE,
              raised |-> FALSE]

\* a cooldown test with a window twice as long
cooldown_elapsed_twice(t, last_switch) == t - last_switch > 2 * FAILOVER_COOLDOWN

\* the cooldown test of _analyze_paths
cooldown_elapsed(t, last_switch) == t - last_switch > FAILOVER_COOLDOWN

\* One iteration of the loop of _analyze_paths, for path_name, on the running
\* state st = [ap, log, sent, lr, attempted, raised].  Once an exception is on
\* its way out (st.raised) no further iteration runs.
analyze_one(path_name, pm, dps, t, st, send) ==
    LET metrics == pm[path_name]
        c == classify(metrics)
        ap1 == [st.ap EXCEPT ![path_name].status = c.status]
        log1 == st.log \o classify_log(path_name, metrics)
    IN  IF st.raised THEN st
        ELSE IF path_name \notin DOMAIN st.ap
        THEN [st EXCEPT !.log = log1]
        ELSE IF c.action_needed /\ cooldown_elapsed(t, st.ap[path_name].last_switch)
        THEN LET ap2 == [ap1 EXCEPT ![path_name].last_switch = t]
                 r == recalculate_and_install_flows(path_name, pm, ap2, dps, send)
             IN  [ap |-> ap2, log |-> log1 \o r.log, sent |-> st.sent \o r.sent,
                  lr |-> [st.lr EXCEPT ![path_name] = t],
                  attempted |-> st.attempted \/ r.attempted,
                  raised |-> r.raised]
        ELSE [st EXCEPT !.ap = ap1, !.log = log1]

RECURSIVE analyze_from(_, _, _, _, _, _)
analyze_from(i, pm, dps, t, st, send) ==
    IF i > Len(PathNames) THEN st
    ELSE IF PathNames[i] \notin DOMAIN pm
    THEN analyze_from(i + 1, pm, dps, t, st, send)
    ELSE analyze_from(i + 1, pm, dps, t, analyze_one(PathNames[i], pm, dps, t, st, send),
                      send)

analyze_paths(pm, dps, t, ap, lr, send) ==
    analyze_from(1, pm, dps, t,
                 [ap |-> ap, log |-> <<>>, sent |-> <<>>, lr |-> lr,
                  attempted |-> FALSE, raised |-> FALSE],
                 send)

\* One iteration of the loop of _handle_tunnel_failure.
\* a handling of a tunnel failure that looks at the site end of a path only
tunnel_failure_site_end_only(path_name, dpid, pm, dps, t, st, send) ==
    IF st.raised THEN st
    ELSE IF site_dpid(path_name) = dpid
    THEN LET ap1 == [st.ap EXCEPT ![path_name].status = STATUS_TUNNEL_DOWN]
             r == recalculate_and_install_flows(path_name, pm, ap1, dps, send)
         IN  [ap |-> ap1, log |-> st.log \o r.log, sent |-> st.sent \o r.sent,
              lr |-> [st.lr EXCEPT ![path_name] = t],
              attempted |-> st.attempted \/ r.attempted,
              raised |-> r.raised]
    ELSE st

\* One iteration of the loop of _handle_tunnel_failure, for path_name
tunnel_failure_one(path_name, dpid, pm, dps, t, st, send) ==
    IF st.raised THEN st
    ELSE IF site_dpid(path_name) = dpid \/ hq_dpid(path_name) = dpid
    THEN LET ap1 == [st.ap EXCEPT ![path_name].status = STATUS_TUNNEL_DOWN]
             r == recalculate_and_install_flows(path_name, pm, ap1, dps, send)
         IN  [ap |-> ap1, log |-> st.log \o r.log, sent |-> st.sent \o r.sent,
              lr |-> [st.lr EXCEPT ![path_name] = t],
              attempted |-> st.attempted \/ r.attempted,
              raised |-> r.raised]
    ELSE st

RECURSIVE tunnel_failure_from(_, _, _, _, _, _, _)
tunnel_failure_from(i, dpid, pm, dps, t, st, send) ==
    IF i > Len(PathNames) THEN st
    ELSE tunnel_failure_from(i + 1, dpid, pm, dps, t,
                             tunnel_failure_one(PathNames[i], dpid, pm, dps, t, st, send),
                             send)

handle_tunnel_failure(dpid, pm, dps, t, ap, lr, log0, send) ==
    tunnel_failure_from(1, dpid, pm, dps, t,
                        [ap |-> ap, log |-> log0, sent |-> <<>>, lr |-> lr,
                         attempted |-> FALSE, raised |-> FALSE],
                        send)

\* a snapshot writer that lets the exception of a failed write through
save_metrics_uncaught(write_ok) == ~write_ok

\* _save_metrics: whether an exception leaves it when the write of the
\* snapshot file fails (write_ok false).  Its try/except catches Exception.
save_metrics_raises(write_ok) == FALSE

-----------------------------------------------------------------------------
(* History and anomaly detection *)

\* an append that drops the newest entry of a full history
history_append_keep_oldest(history, metrics) ==
    LET appended == Append(history, [latency |-> metrics.latency, loss |-> metrics.loss])
    IN  IF Len(appended) > HISTORY_CAP THEN SubSeq(appended, 1, HISTORY_CAP) ELSE appended

\* an append that repeats the entry before it instead of the new measurement
history_append_stale(history, metrics) ==
    LET entry == IF history = <<>>
                 THEN [latency |-> metrics.latency, loss |-> metrics.loss]
                 ELSE history[Len(history)]
        appended == Append(history, entry)
    IN  IF Len(appended) > HISTORY_CAP THEN Tail(appended) ELSE appended

\* the append and the pop(0) of _measure_all_paths
history_append(history, metrics) ==
    LET appended == Append(history, [latency |-> metrics.latency, loss |-> metrics.loss])
    IN  IF Len(appended) > HISTORY_CAP THEN Tail(appended) ELSE appended

RECURSIVE sum_latencies(_)
sum_latencies(ms) ==
    IF ms = <<>> THEN 0 ELSE Head(ms).latency + sum_latencies(Tail(ms))

\* history[-5:]
recent_window(history) == SubSeq(history, Len(history) - ANOMALY_WINDOW + 1, Len(history))

\* a spike test against the mean of the whole history
latency_spike_whole_history(history) ==
    LET current_latency == history[Len(history)].latency
    IN  /\ current_latency * Len(history) > sum_latencies(history) * 2
        /\ current_latency > 50

\* current_latency > avg_latency * 2 and current_latency > 50, with
\* avg_latency = sum / len written without the division
latency_spike(history) ==
    LET recent == recent_window(history)
        current_latency == recent[Len(recent)].latency
    IN  /\ current_latency * Len(recent) > sum_latencies(recent) * 2
        /\ current_latency > 50

anomaly_detected(history) ==
    IF Len(history) < ANOMALY_WINDOW THEN FALSE ELSE latency_spike(history)

dict_get(d, k, default) == IF k \in DOMAIN d THEN d[k] ELSE default

dict_set(d, k, v) == [x \in (DOMAIN d) \cup {k} |-> IF x = k THEN v ELSE d[x]]

RECURSIVE detect_from(_, _, _)
detect_from(i, ph, st) ==
    IF i > Len(PathNames) THEN st
    ELSE LET path_name == PathNames[i] IN
         IF anomaly_detected(ph[path_name])
         THEN detect_from(i + 1, ph,
                  [ac |-> dict_set(st.ac, path_name, dict_get(st.ac, path_name, 0) + 1),
                   log |-> Append(st.log, Event("ANOMALY", "latency spike", path_name, None))])
         ELSE detect_from(i + 1, ph, st)

\* a detection step that starts from empty counters
detect_anomalies_reset(ph, ac) == detect_from(1, ph, [ac |-> <<>>, log |-> <<>>])

detect_anomalies(ph, ac) == detect_from(1, ph, [ac |-> ac, log |-> <<>>])

-----------------------------------------------------------------------------
(* Packet-in: flow priority *)

VOIP_PORTS == {5060, 5061}
HIGH_PRIORITY_PORTS == {22, 443}

calculate_priority(pkt) ==
    IF ~pkt.ip THEN 1
    ELSE IF pkt.l4 = "udp" /\ (pkt.sport \in VOIP_PORTS \/ pkt.dport \in VOIP_PORTS)
    THEN 200
    ELSE IF pkt.l4 = "tcp" /\ (pkt.sport \in HIGH_PRIORITY_PORTS
                               \/ pkt.dport \in HIGH_PRIORITY_PORTS)
    THEN 150
    ELSE LET dscp == pkt.tos \div 4 IN
         IF dscp = 46 THEN 200
         ELSE IF 32 <= dscp /\ dscp <= 38 THEN 150
         ELSE IF pkt.tos > 0 THEN 100
         ELSE 1

\* the site_mac update loop of _packet_in_handler
learn_site_mac(ap, pkt) ==
    [p \in DOMAIN ap |->
        IF pkt.ip /\ pkt.ip_src = site_ip(p)
        THEN [ap[p] EXCEPT !.site_mac = pkt.src]
        ELSE ap[p]]

-----------------------------------------------------------------------------
(* Inputs of the model *)

\* what the ping run of a probe may give
ProbeGood == PingOutput(20, 0)
ProbeCritical == PingOutput(150, 0)
ProbeLossy == PingOutput(60, 33)
ProbeDead == PingOutput(NoMatch, 100)

NetConditions == {ProbeGood, ProbeCritical, ProbeLossy, ProbeDead}

ProbeFast == PingOutput(10, 0)
ProbeSlow == PingOutput(60, 0)

NetConditionsNet == {ProbeFast, ProbeSlow, ProbeCritical}

\* the paths whose network state changes during a run of SpecNet
ChangingPaths == {"HQ-to-Site1", "HQ-to-Site2"}

\* the paths that may be in any of these states when the controller starts
DegradedAtStart == {"HQ-to-Site2"}

\* how long a probe may take, in seconds
ProbeDurations == {0}

\* the switches that connect during a run: HQ and Site1
Dpids == {1, 2}

OFPP_FLOOD == 0

Packet(src, dst, in_port, ip_src, tos, l4, dport) ==
    [lldp |-> FALSE, src |-> src, dst |-> dst, in_port |-> in_port, ip |-> TRUE,
     ip_src |-> ip_src, tos |-> tos, l4 |-> l4, sport |-> 40000, dport |-> dport,
     buffered |-> FALSE]

\* packets a switch may hand to the controller: a reply of the host of Site1
Packets ==
    {Packet("mac-site1", "mac-hq", 2, "10.2.1.10", 0, "icmp", 0)}

\* packets with the ToS bytes, transports and destination ports that
\* _calculate_priority tells apart: DSCP 0, 1, 32, 38 and 46; a VoIP port, a
\* high-priority port and another one
PacketTos == {0, 4, 128, 152, 184}
PacketTransports == {"udp", "tcp", "icmp"}
PacketPorts == {5060, 22, 80}

\* a frame that is not IPv4
ArpPacket(src, dst, in_port) ==
    [Packet(src, dst, in_port, "", 0, "none", 0) EXCEPT !.ip = FALSE]

\* a first packet of the HQ host, then packets of the host of Site1 to it
PacketsQos ==
    {Packet("mac-hq", "mac-site1", 1, "10.1.1.10", 0, "icmp", 0),
     ArpPacket("mac-site1", "mac-hq", 2)}
    \cup {Packet("mac-site1", "mac-hq", 2, "10.2.1.10", tos, l4, dport) :
              tos \in PacketTos, l4 \in PacketTransports, dport \in PacketPorts}

PortReasons == {"MODIFY"}

-----------------------------------------------------------------------------
(* Initial state: __init__ *)

InitController ==
    /\ now = StartTime
    /\ pc = "init_sleep"
    /\ idx = 1
    /\ cycle = 0
    /\ datapaths = {}
    /\ mac_to_port = <<>>
    /\ path_metrics = <<>>
    /\ performance_history = [p \in PathSet |-> <<>>]
    /\ anomaly_counts = <<>>
    /\ active_paths = [p \in PathSet |->
                         [status |-> STATUS_UNKNOWN, last_switch |-> 0, site_mac |-> None]]
    /\ net_changes = 0
    /\ port_events = 0
    /\ log_file = <<Event("SYSTEM", "SD-WAN Controller Initialized", None, None)>>
    /\ sent = <<>>
    /\ last_step = "init"
    /\ last_recalc = [p \in PathSet |-> 0]
    /\ switch_before = [p \in PathSet |-> 0]
    /\ measured = [p \in PathSet |-> <<>>]
    /\ faults = {}
    /\ send_result = SEND_NONE
    /\ last_pkt = {}
    /\ measured_in = [p \in PathSet |-> 0]
    /\ detected_on = [cycle |-> 0, history |-> [p \in PathSet |-> <<>>]]

Init ==
    /\ InitController
    /\ net \in [PathSet -> NetConditions]

-----------------------------------------------------------------------------
(* The monitor green thread: _monitor_loop *)

\* The handlers of OpenFlow events run only while the monitor is suspended:
\* in hub.sleep or in the subprocess of a probe, or after it has ended.
MonitorSuspended == pc \in {"init_sleep", "sleep", "probe", "crashed"}

\* hub.sleep(5) returns
InitialSleepEnds ==
    /\ switch_before' = [q \in PathSet |-> active_paths[q].last_switch]
    /\ UNCHANGED <<measured_in, detected_on>>
    /\ pc = "init_sleep"
    /\ now' = now + INITIAL_SLEEP
    /\ pc' = "sleep"
    /\ log_file' = <<>>
    /\ sent' = <<>>
    /\ send_result' = SEND_NONE
    /\ last_pkt' = {}
    /\ last_step' = "initial_sleep"
    /\ UNCHANGED <<idx, cycle, datapaths, mac_to_port, path_metrics, performance_history,
                   anomaly_counts, active_paths, net, net_changes, port_events,
                   last_recalc, measured, faults>>

\* hub.sleep(10) returns: cycle += 1, `continue` when no switch is connected,
\* else the statistics requests and the start of the first probe; in a run of
\* at most max_cycles cycles
CycleStartsWithin(max_cycles) ==
    /\ switch_before' = [q \in PathSet |-> active_paths[q].last_switch]
    /\ UNCHANGED <<measured_in, detected_on>>
    /\ pc = "sleep"
    /\ cycle < max_cycles
    /\ now' = now + MONITOR_PERIOD
    /\ cycle' = cycle + 1
    /\ IF datapaths = {}
       THEN pc' = "sleep" /\ idx' = idx
       ELSE pc' = "probe" /\ idx' = 1
    /\ log_file' = <<>>
    /\ sent' = <<>>
    /\ send_result' = SEND_NONE
    /\ last_pkt' = {}
    /\ faults' = {}
    /\ last_step' = "cycle_start"
    /\ UNCHANGED <<datapaths, mac_to_port, path_metrics, performance_history,
                   anomaly_counts, active_paths, net, net_changes, port_events,
                   last_recalc, measured>>

CycleStarts == CycleStartsWithin(MaxCycles)

\* _measure_all_paths, one iteration: the probe of paths[idx] returns after d
\* seconds; its measurement is appended to the history and stored
ProbeReturns(d) ==
    /\ switch_before' = [q \in PathSet |-> active_paths[q].last_switch]
    /\ measured_in' = [measured_in EXCEPT ![PathNames[idx]] = cycle]
    /\ UNCHANGED detected_on
    /\ pc = "probe"
    /\ LET path_name == PathNames[idx]
           metrics == measure_path(net[path_name])
       IN  /\ performance_history' =
                  [performance_history EXCEPT
                      ![path_name] = history_append(performance_history[path_name], metrics)]
           /\ path_metrics' = dict_set(path_metrics, path_name, metrics)
           /\ measured' =
                  [measured EXCEPT
                      ![path_name] = Append(@, [latency |-> metrics.latency,
                                                loss |-> metrics.loss])]
           /\ faults' = IF net[path_name].exc THEN faults \cup {"probe"} ELSE faults
    /\ now' = now + d
    /\ IF idx < Len(PathNames)
       THEN idx' = idx + 1 /\ pc' = "probe"
       ELSE idx' = 1 /\ pc' = "detect"
    /\ log_file' = <<>>
    /\ sent' = <<>>
    /\ send_result' = SEND_NONE
    /\ last_pkt' = {}
    /\ last_step' = "probe"
    /\ UNCHANGED <<cycle, datapaths, mac_to_port, anomaly_counts, active_paths, net,
                   net_changes, port_events, last_recalc>>

\* _detect_anomalies
DetectAnomalies ==
    /\ switch_before' = [q \in PathSet |-> active_paths[q].last_switch]
    /\ detected_on' = [cycle |-> cycle, history |-> performance_history]
    /\ UNCHANGED measured_in
    /\ pc = "detect"
    /\ LET r == detect_anomalies(performance_history, anomaly_counts)
       IN  /\ anomaly_counts' = r.ac
           /\ log_file' = r.log
    /\ pc' = "analyze"
    /\ sent' = <<>>
    /\ send_result' = SEND_NONE
    /\ last_pkt' = {}
    /\ last_step' = "detect"
    /\ UNCHANGED <<now, idx, cycle, datapaths, mac_to_port, path_metrics,
                   performance_history, active_paths, net, net_changes, port_events,
                   last_recalc, measured, faults>>

\* the outcomes of send_msg that make a difference to this classification
\* step: one when it sends no delete command
AnalyzeSendOutcomes ==
    IF analyze_paths(path_metrics, datapaths, now, active_paths, last_recalc,
                     SEND_QUEUED).attempted
    THEN SendOutcomes ELSE {SEND_QUEUED}

\* whether the write of the snapshot file succeeds, in the cycles that write it
SaveOutcomes == IF cycle % SAVE_EVERY = 0 THEN BOOLEAN ELSE {TRUE}

\* _analyze_paths, then _display_status and (every third cycle) _save_metrics,
\* which change nothing the controller reads.  An exception that leaves
\* _analyze_paths or _save_metrics leaves _monitor_loop too, which has no
\* handler: the green thread ends.
AnalyzePaths ==
    /\ switch_before' = [q \in PathSet |-> active_paths[q].last_switch]
    /\ UNCHANGED <<measured_in, detected_on>>
    /\ pc = "analyze"
    /\ \E send \in AnalyzeSendOutcomes, write_ok \in SaveOutcomes :
          LET r == analyze_paths(path_metrics, datapaths, now, active_paths,
                                 last_recalc, send)
              saves == ~r.raised /\ cycle % SAVE_EVERY = 0
          IN  /\ active_paths' = r.ap
              /\ log_file' = r.log
              /\ sent' = r.sent
              /\ last_recalc' = r.lr
              /\ send_result' = IF r.attempted THEN send ELSE SEND_NONE
              /\ faults' = IF saves /\ ~write_ok THEN faults \cup {"save"} ELSE faults
              /\ pc' = IF r.raised \/ (saves /\ save_metrics_raises(write_ok))
                       THEN "crashed" ELSE "sleep"
    /\ last_pkt' = {}
    /\ last_step' = "analyze"
    /\ UNCHANGED <<now, idx, cycle, datapaths, mac_to_port, path_metrics,
                   performance_history, anomaly_counts, net, net_changes, port_events,
                   measured>>

-----------------------------------------------------------------------------
(* OpenFlow event handlers *)

\* switch_features_handler: a switch connects
SwitchFeatures(dpid) ==
    /\ switch_before' = [q \in PathSet |-> active_paths[q].last_switch]
    /\ UNCHANGED <<measured_in, detected_on>>
    /\ MonitorSuspended
    /\ dpid \notin datapaths
    /\ cycle <= MaxConnectCycle
    /\ datapaths' = datapaths \cup {dpid}
    /\ log_file' = <<SwitchEvent("SWITCH", "connected", dpid)>>
    /\ sent' = <<FlowAdd(dpid, 0, "*")>>
    /\ send_result' = SEND_NONE
    /\ last_pkt' = {}
    /\ last_step' = "switch_features"
    /\ UNCHANGED <<now, pc, idx, cycle, mac_to_port, path_metrics, performance_history,
                   anomaly_counts, active_paths, net, net_changes, port_events,
                   last_recalc, measured, faults>>

\* the outcomes of send_msg that make a difference to the handling of a
\* tunnel failure on dpid
TunnelSendOutcomes(dpid) ==
    IF handle_tunnel_failure(dpid, path_metrics, datapaths, now, active_paths,
                             last_recalc, <<>>, SEND_QUEUED).attempted
    THEN SendOutcomes ELSE {SEND_QUEUED}

\* port_status_handler: a port-status message of a connected switch
PortStatus(dpid, reason, is_gre, link_down) ==
    /\ switch_before' = [q \in PathSet |-> active_paths[q].last_switch]
    /\ UNCHANGED <<measured_in, detected_on>>
    /\ MonitorSuspended
    /\ dpid \in datapaths
    /\ port_events < MaxPortEvents
    /\ port_events' = port_events + 1
    /\ LET log0 == <<SwitchEvent("PORT_STATUS", reason, dpid)>> IN
       IF is_gre /\ reason = "MODIFY" /\ link_down
       THEN \E send \in TunnelSendOutcomes(dpid) :
               LET r == handle_tunnel_failure(dpid, path_metrics, datapaths, now,
                                              active_paths, last_recalc,
                                              Append(log0, SwitchEvent("TUNNEL_DOWN", "gre", dpid)),
                                              send)
               IN  /\ active_paths' = r.ap
                   /\ log_file' = r.log
                   /\ sent' = r.sent
                   /\ last_recalc' = r.lr
                   /\ send_result' = IF r.attempted THEN send ELSE SEND_NONE
       ELSE /\ log_file' = log0
            /\ sent' = <<>>
            /\ send_result' = SEND_NONE
            /\ UNCHANGED <<active_paths, last_recalc>>
    /\ last_pkt' = {}
    /\ last_step' = "port_status"
    /\ UNCHANGED <<now, pc, idx, cycle, datapaths, mac_to_port, path_metrics,
                   performance_history, anomaly_counts, net, net_changes, measured,
                   faults>>

\* _packet_in_handler
PacketIn(dpid, pkt) ==
    /\ switch_before' = [q \in PathSet |-> active_paths[q].last_switch]
    /\ UNCHANGED <<measured_in, detected_on>>
    /\ MonitorSuspended
    /\ dpid \in datapaths
    /\ IF pkt.lldp
       THEN /\ log_file' = <<>>
            /\ sent' = <<>>
            /\ UNCHANGED <<mac_to_port, active_paths>>
       ELSE LET table == dict_set(dict_get(mac_to_port, dpid, <<>>), pkt.src, pkt.in_port)
                out_port == dict_get(table, pkt.dst, OFPP_FLOOD)
                priority == calculate_priority(pkt)
            IN  /\ mac_to_port' = dict_set(mac_to_port, dpid, table)
                /\ active_paths' = learn_site_mac(active_paths, pkt)
                /\ log_file' = IF out_port # OFPP_FLOOD /\ pkt.ip /\ priority >= 100
                               THEN <<SwitchEvent("QOS", "High priority flow", dpid)>>
                               ELSE <<>>
                /\ sent' = (IF out_port # OFPP_FLOOD
                            THEN <<FlowAdd(dpid, priority, pkt.dst)>> ELSE <<>>)
                           \o (IF out_port # OFPP_FLOOD /\ pkt.buffered
                               THEN <<>>
                               ELSE <<PacketOut(dpid, pkt.dst)>>)
    /\ send_result' = SEND_NONE
    /\ last_pkt' = {pkt}
    /\ last_step' = "packet_in"
    /\ UNCHANGED <<now, pc, idx, cycle, datapaths, path_metrics, performance_history,
                   anomaly_counts, net, net_changes, port_events, last_recalc,
                   measured, faults>>

-----------------------------------------------------------------------------
(* Environment *)

\* the state of the network towards a site changes
NetChange(p, c) ==
    /\ switch_before' = [q \in PathSet |-> active_paths[q].last_switch]
    /\ UNCHANGED <<measured_in, detected_on>>
    /\ net_changes < MaxNetChanges
    /\ c # net[p]
    /\ net' = [net EXCEPT ![p] = c]
    /\ net_changes' = net_changes + 1
    /\ UNCHANGED <<now, pc, idx, cycle, datapaths, mac_to_port, path_metrics,
                   performance_history, anomaly_counts, active_paths, port_events,
                   log_file, sent, last_step, last_recalc, measured, faults,
                   send_result, last_pkt>>

-----------------------------------------------------------------------------

\* the steps of the monitor green thread
MonitorNext ==
    \/ InitialSleepEnds
    \/ CycleStarts
    \/ \E d \in ProbeDurations : ProbeReturns(d)
    \/ DetectAnomalies
    \/ AnalyzePaths

Next ==
    \/ MonitorNext
    \/ \E dpid \in Dpids : SwitchFeatures(dpid)
    \/ \E dpid \in Dpids, reason \in PortReasons, link_down \in BOOLEAN :
           PortStatus(dpid, reason, TRUE, link_down)
    \/ \E pkt \in Packets : PacketIn(1, pkt)

\* the controller in a network whose state does not change during the run
Spec == Init /\ [][Next]_vars

\* the controller in a network whose state changes during the run, with no
\* port-status message
InitNet ==
    /\ InitController
    /\ net \in [PathSet -> NetConditionsNet]
    /\ \A p \in PathSet \ DegradedAtStart : net[p] = ProbeFast

NextNet ==
    \/ MonitorNext
    \/ \E dpid \in Dpids : SwitchFeatures(dpid)
    \/ \E pkt \in Packets : PacketIn(1, pkt)
    \/ \E p \in ChangingPaths, c \in NetConditionsNet : NetChange(p, c)

SpecNet == InitNet /\ [][NextNet]_vars

\* The monitor over a run long enough to fill the histories, with one switch
\* and a network in which one path changes between two states.
NetConditionsLong == {ProbeFast, ProbeSlow}

InitLong ==
    /\ InitController
    /\ net = [p \in PathSet |-> ProbeFast]

NextLong ==
    \/ InitialSleepEnds
    \/ CycleStartsWithin(MaxLongCycles)
    \/ \E d \in ProbeDurations : ProbeReturns(d)
    \/ DetectAnomalies
    \/ AnalyzePaths
    \/ SwitchFeatures(1)
    \/ \E c \in NetConditionsLong : NetChange("HQ-to-Site2", c)

SpecLong == InitLong /\ [][NextLong]_vars

\* The monitor in a network whose first two paths answer the probe with any
\* of a grid of latencies and losses, or make the ping run raise or print
\* nothing the regular expressions match.
ProbeLatencies == {0, 20, 100, 199, 200, 250, NoMatch}
ProbeLosses == {0, 1, 5, 10, 33, 99, 100, NoMatch}

NetConditionsProbe ==
    {PingOutput(lat, loss) : lat \in ProbeLatencies, loss \in ProbeLosses}
    \cup {PingRaised}

InitProbe ==
    /\ InitController
    /\ net \in [PathSet -> NetConditionsProbe \cup {ProbeGood}]
    /\ net["HQ-to-Site3"] = ProbeGood

NextProbe ==
    \/ MonitorNext
    \/ SwitchFeatures(1)

SpecProbe == InitProbe /\ [][NextProbe]_vars

\* The controller with every handler, in a network in which the path to
\* Site1 changes between a fast and a critical state.
NetConditionsAnomaly == {ProbeFast, ProbeCritical}

InitAnomaly ==
    /\ InitController
    /\ net = [p \in PathSet |-> ProbeFast]

NextAnomaly ==
    \/ MonitorNext
    \/ \E dpid \in Dpids : SwitchFeatures(dpid)
    \/ \E dpid \in Dpids, reason \in PortReasons, link_down \in BOOLEAN :
           PortStatus(dpid, reason, TRUE, link_down)
    \/ \E pkt \in Packets : PacketIn(1, pkt)
    \/ \E c \in NetConditionsAnomaly : NetChange("HQ-to-Site1", c)

SpecAnomaly == InitAnomaly /\ [][NextAnomaly]_vars

\* The controller with one switch, in a fast network, receiving packets of
\* every traffic class.
NextPackets ==
    \/ MonitorNext
    \/ SwitchFeatures(1)
    \/ \E pkt \in PacketsQos : PacketIn(1, pkt)

SpecPackets == InitAnomaly /\ [][NextPackets]_vars

\* The monitor in a network in which the ping run of a probe may raise, with
\* no packet of a host reaching the controller (so no address is learned and
\* no delete command is sent).  The monitor thread is scheduled fairly:
\* hub.sleep returns, a ping run ends within its timeout, and the detection
\* and classification steps end.
NetConditionsFaults == {ProbeGood, PingRaised}

InitFaults ==
    /\ InitController
    /\ net \in [PathSet -> NetConditionsFaults]

NextFaults ==
    \/ MonitorNext
    \/ \E dpid \in Dpids : SwitchFeatures(dpid)

SpecFaults == InitFaults /\ [][NextFaults]_vars /\ WF_vars(MonitorNext)

-----------------------------------------------------------------------------
(* Observations used by the properties *)

\* _recalculate_and_install_flows ran for p during the latest step and found an
\* alternative
SwitchedFrom(p) ==
    \E i \in DOMAIN log_file :
        log_file[i].kind = "FAILOVER" /\ log_file[i].msg = "Switching"
        /\ log_file[i].path = p

\* it ran for p during the latest step and found none
NoAlternativeFor(p) ==
    \E i \in DOMAIN log_file :
        log_file[i].kind = "FAILOVER" /\ log_file[i].msg = "No alternative"
        /\ log_file[i].path = p

\* it ran for p during the latest step
RecalcRan(p) == SwitchedFrom(p) \/ NoAlternativeFor(p)

\* the latest step deleted the flows of p
FlowsDeletedFor(p) ==
    \E i \in DOMAIN sent : sent[i].cmd = "DELETE" /\ sent[i].path = p

\* the latest step handled a tunnel-down port status that affects p
TunnelDownFor(p) ==
    /\ last_step = "port_status"
    /\ \E i \in DOMAIN log_file :
          /\ log_file[i].kind = "TUNNEL_DOWN"
          /\ log_file[i].dpid \in {hq_dpid(p), site_dpid(p)}

\* _recalculate_and_install_flows logged the success of the failover of p
\* during the latest step
SuccessLoggedFor(p) ==
    \E i \in DOMAIN log_file :
        log_file[i].kind = "FAILOVER" /\ log_file[i].msg = "Successfully failed over"
        /\ log_file[i].path = p

\* the delete command of a failover of the latest step failed
DeleteFailed == send_result = SEND_DISCARDED

\* the latest step was the classification step of a monitor cycle
Analyzed == last_step = "analyze"

ActionNeeded(p) ==
    /\ p \in DOMAIN path_metrics
    /\ \/ ~path_metrics[p].available
       \/ path_metrics[p].latency > LATENCY_CRITICAL

-----------------------------------------------------------------------------
(* Properties *)

\* C1: for every path p, two executions of the failover orchestration for p,
\* whether started by the periodic classification step or by a link-down
\* signal, are never started less than 30 seconds apart.
C1_CooldownOverEveryTrigger ==
    [][\A p \in PathSet :
          (RecalcRan(p)' /\ last_step' \in {"analyze", "port_status"}
           /\ (pc = "analyze" \/ port_events' # port_events)
           /\ last_recalc[p] > 0)
          => now' - last_recalc[p] >= FAILOVER_COOLDOWN]_vars

\* C2: a link-down signal that affects path p while now - last_switch[p] < 30
\* runs no failover orchestration for p (no flow deletion, no switching
\* event) and leaves last_switch[p] unchanged.
C2_LinkDownInsideCooldown ==
    \A p \in PathSet :
        (TunnelDownFor(p) /\ now - switch_before[p] < FAILOVER_COOLDOWN)
        => /\ ~RecalcRan(p)
           /\ ~FlowsDeletedFor(p)
           /\ active_paths[p].last_switch = switch_before[p]

\* C3: whenever _find_best_alternative_path(failed) returns a path q, q is not
\* failed, q's stored measurement is available, and q's quality is at least
\* the quality of every other available path that is not failed.  Stated of
\* every stored table of measurements and of every alternative a failover of
\* the latest step switched to.
BestAmongAvailable(q, failed, pm) ==
    /\ q # failed
    /\ q \in DOMAIN pm
    /\ pm[q].available
    /\ \A r \in (DOMAIN pm) \ {failed} :
          pm[r].available => pm[q].quality >= pm[r].quality

C3_AlternativeIsBestAvailable ==
    /\ \A failed \in PathSet :
          LET q == find_best_alternative_path(failed, path_metrics)
          IN  q # None => BestAmongAvailable(q, failed, path_metrics)
    /\ \A i \in DOMAIN log_file :
          (log_file[i].kind = "FAILOVER" /\ log_file[i].msg = "Switching")
          => BestAmongAvailable(log_file[i].arg, log_file[i].path, path_metrics)

\* C3 witness: a failover switched to the third path although the second,
\* found first, is available too, with a lower quality above 0.
C3_Witness ==
    /\ \E i \in DOMAIN log_file :
          /\ log_file[i].kind = "FAILOVER" /\ log_file[i].msg = "Switching"
          /\ log_file[i].path = "HQ-to-Site1" /\ log_file[i].arg = "HQ-to-Site3"
    /\ DOMAIN path_metrics = PathSet
    /\ path_metrics["HQ-to-Site2"].available
    /\ path_metrics["HQ-to-Site2"].quality > 0
    /\ path_metrics["HQ-to-Site2"].quality < path_metrics["HQ-to-Site3"].quality

\* C4: _find_best_alternative_path(failed) returns none only if every tracked
\* path other than failed is unavailable: when a failover of the latest step
\* found no alternative, no other path has an available stored measurement.
C4_NoneOnlyIfAllUnavailable ==
    \A p \in PathSet :
        NoAlternativeFor(p)
        => \A r \in (DOMAIN path_metrics) \ {p} : ~path_metrics[r].available

\* C5: whenever a failover orchestration for p finds a candidate alternative,
\* from either trigger, last_switch[p] is the current time afterwards.
C5_SwitchRecordsTime ==
    \A p \in PathSet :
        SwitchedFrom(p) => active_paths[p].last_switch = now

\* C6: a failover attempt for p that finds no alternative changes nothing but
\* the log: last_switch[p], the learned address, the histories, the anomaly
\* counters and the forwarding state stay as they were.
C6_NoAlternativeChangesNothing ==
    [][\A p \in PathSet :
          (NoAlternativeFor(p)' /\ (pc = "analyze" \/ port_events' # port_events))
          => /\ active_paths'[p].last_switch = active_paths[p].last_switch
             /\ active_paths'[p].site_mac = active_paths[p].site_mac
             /\ performance_history' = performance_history
             /\ anomaly_counts' = anomaly_counts
             /\ ~FlowsDeletedFor(p)']_vars

\* C7 as claimed: in every executed cycle, a path classified DOWN or CRITICAL
\* whose last switch is at least 30 s old is failed over in that cycle.
C7_FailoverWhenCooldownAtLeast30 ==
    \A p \in PathSet :
        (Analyzed /\ ActionNeeded(p) /\ now - switch_before[p] >= FAILOVER_COOLDOWN)
        => RecalcRan(p)

\* C7 as amended: in every executed cycle, a path classified DOWN or CRITICAL
\* whose last switch is more than 30 s old is failed over in that cycle.
C7_FailoverWhenCooldownOver30 ==
    \A p \in PathSet :
        (Analyzed /\ ActionNeeded(p) /\ now - switch_before[p] > FAILOVER_COOLDOWN)
        => RecalcRan(p)

\* C7 witness: a path that was failed over before is failed over again by a
\* classification step, more than 30 s later.
C7_Witness ==
    \E p \in PathSet :
        /\ Analyzed /\ ActionNeeded(p) /\ RecalcRan(p)
        /\ switch_before[p] > 0
        /\ now - switch_before[p] > FAILOVER_COOLDOWN
        /\ active_paths[p].last_switch = now

\* C8: the status is classified by strict priority, first match wins: not
\* available -> DOWN; else latency > 100 -> CRITICAL; else latency > 50 ->
\* HIGH; else loss > 5 -> LOSS; else OK; and after the classification step
\* the status stored on each tracked path is this classification of the
\* measurement of that cycle.
ExpectedStatus(m) ==
    CASE ~m.available -> STATUS_DOWN
      [] m.available /\ m.latency > 100 -> STATUS_CRITICAL
      [] m.available /\ m.latency <= 100 /\ m.latency > 50 -> STATUS_HIGH
      [] m.available /\ m.latency <= 50 /\ m.loss > 5 -> STATUS_LOSS
      [] OTHER -> STATUS_OK

LatencySamples == {0, 20, 50, 51, 60, 100, 101, 150, 999}
LossSamples == {0, 5, 6, 33, 99, 100}

C8_StatusByPriority ==
    Analyzed =>
        /\ \A p \in PathSet :
              /\ p \in DOMAIN path_metrics
              /\ active_paths[p].status = ExpectedStatus(path_metrics[p])
        /\ \A lat \in LatencySamples, loss \in LossSamples :
              LET m == measure_path(PingOutput(lat, loss))
              IN  classify(m).status = ExpectedStatus(m)

\* C8 witness: after a classification step one path with latency in (50,100]
\* and loss above 5 is stored as HIGH and an unavailable one as DOWN.
C8_Witness ==
    /\ Analyzed
    /\ \E p, q \in PathSet :
          /\ path_metrics[p].latency > 50 /\ path_metrics[p].latency <= 100
          /\ path_metrics[p].loss > 5 /\ path_metrics[p].available
          /\ active_paths[p].status = STATUS_HIGH
          /\ ~path_metrics[q].available /\ path_metrics[q].latency > 100
          /\ active_paths[q].status = STATUS_DOWN

\* C9: in the classification step the failover orchestration runs for p only
\* if p is classified DOWN or CRITICAL; a path classified OK, HIGH or LOSS
\* causes no failover, no flow deletion and no change of last_switch.
C9_OnlyDownOrCriticalFailOver ==
    \A p \in PathSet :
        Analyzed =>
            /\ RecalcRan(p) => active_paths[p].status \in {STATUS_DOWN, STATUS_CRITICAL}
            /\ active_paths[p].status \in {STATUS_OK, STATUS_HIGH, STATUS_LOSS}
               => /\ ~RecalcRan(p)
                  /\ ~FlowsDeletedFor(p)
                  /\ active_paths[p].last_switch = switch_before[p]

\* C9 witness: a classification step fails one path over, deleting its flows,
\* and leaves a path it classified HIGH alone.
C9_Witness ==
    /\ Analyzed
    /\ \E p, q \in PathSet :
          /\ active_paths[p].status = STATUS_HIGH
          /\ ~RecalcRan(p)
          /\ SwitchedFrom(q) /\ FlowsDeletedFor(q)

\* C10: in each anomaly-detection step the anomaly counter of p goes up by
\* exactly 1 if History[p] has at least 5 entries and the latest latency is
\* above twice the mean of the last 5 latencies and above 50, and stays as
\* it is otherwise.
LatencyAt(h, k) == h[Len(h) - k].latency

SpikeExpected(h) ==
    /\ Len(h) >= 5
    /\ LatencyAt(h, 0) * 5 >
           2 * (LatencyAt(h, 0) + LatencyAt(h, 1) + LatencyAt(h, 2)
                + LatencyAt(h, 3) + LatencyAt(h, 4))
    /\ LatencyAt(h, 0) > 50

C10_AnomalyIffSpike ==
    [][(pc = "detect" /\ pc' = "analyze")
       => \A p \in PathSet :
             dict_get(anomaly_counts', p, 0) =
                 dict_get(anomaly_counts, p, 0)
                 + (IF SpikeExpected(performance_history[p]) THEN 1 ELSE 0)]_vars

\* C10 witness: the detection step has just counted the first anomaly of a
\* path whose last five latencies are 10, 10, 10, 10, 60.
C10_Witness ==
    /\ last_step = "detect"
    /\ \E p \in PathSet :
          /\ dict_get(anomaly_counts, p, 0) = 1
          /\ Len(performance_history[p]) >= 5
          /\ LatencyAt(performance_history[p], 0) = 60
          /\ \A k \in 1..4 : LatencyAt(performance_history[p], k) = 10
          /\ \E i \in DOMAIN log_file :
                log_file[i].kind = "ANOMALY" /\ log_file[i].path = p

\* C11: History[p] never holds more than 20 entries, and after n measurements
\* of p it is exactly the last min(n, 20) measurements of p, in the order
\* they were taken.
LastMeasurements(ms, k) == SubSeq(ms, Len(ms) - k + 1, Len(ms))

C11_HistoryIsLastTwenty ==
    \A p \in PathSet :
        /\ Len(performance_history[p]) <= 20
        /\ performance_history[p] =
               LastMeasurements(measured[p], Min(Len(measured[p]), 20))

\* C11 witness: more than 20 measurements of a path were taken, the first of
\* them differs from the oldest one still in the history, which holds 20.
C11_Witness ==
    \E p \in PathSet :
        /\ Len(measured[p]) > 20
        /\ Len(performance_history[p]) = 20
        /\ measured[p][1] # performance_history[p][1]
        /\ performance_history[p][1] # performance_history[p][20]

\* C12: for every latency >= 0 and every loss in 0..100 the quality score is
\* between 0 and 100, and it is 0 at loss 100 whatever the latency.  Stated of
\* every measurement the probe stored.
C12_QualityWithinRange ==
    \A p \in DOMAIN path_metrics :
        /\ 0 <= path_metrics[p].quality
        /\ path_metrics[p].quality <= 100 * QScale
        /\ path_metrics[p].loss = 100 => path_metrics[p].quality = 0

\* C12 witness: stored at once are a measurement of score 100 and one of
\* 100 % loss with a latency of 20 ms and score 0.
C12_Witness ==
    \E p, q \in DOMAIN path_metrics :
        /\ path_metrics[p].quality = 100 * QScale
        /\ path_metrics[q].loss = 100
        /\ path_metrics[q].latency = 20
        /\ path_metrics[q].quality = 0

\* C13: the quality score is non-increasing in each argument: of two stored
\* measurements with the same loss the one with the higher latency has no
\* higher score, and of two with the same latency the one with the higher
\* loss has no higher score, loss 100 included.
C13_QualityNonIncreasing ==
    \A p, q \in DOMAIN path_metrics :
        /\ (path_metrics[p].loss = path_metrics[q].loss
            /\ path_metrics[p].latency <= path_metrics[q].latency)
           => path_metrics[q].quality <= path_metrics[p].quality
        /\ (path_metrics[p].latency = path_metrics[q].latency
            /\ path_metrics[p].loss <= path_metrics[q].loss)
           => path_metrics[q].quality <= path_metrics[p].quality

\* C13 witness: two stored measurements of equal loss, the slower one with a
\* strictly lower score, and two of equal latency, the lossier one with a
\* strictly lower score.
C13_Witness ==
    /\ \E p, q \in DOMAIN path_metrics :
          /\ path_metrics[p].loss = path_metrics[q].loss
          /\ path_metrics[p].latency < path_metrics[q].latency
          /\ path_metrics[q].quality < path_metrics[p].quality
    /\ \E p, q \in DOMAIN path_metrics :
          /\ path_metrics[p].latency = path_metrics[q].latency
          /\ path_metrics[p].loss < path_metrics[q].loss
          /\ path_metrics[q].quality < path_metrics[p].quality

\* C14: the loss penalty saturates at 10 % loss and the latency penalty at
\* 200 ms: for loss < 100 the score is
\* clamp(0.6 * max(0, 100 - latency / 2) + 0.4 * clamp(100 - 10 * loss, 0, 100), 0, 100),
\* so at every loss in 10..99 it is 0.6 times the latency score.  Stated of
\* every measurement the probe stored, in units of 1 / QScale.
SaturatingScore(latency, loss) ==
    LET latency_part == 6 * Max(0, 200 - latency)
        loss_part == 8 * Max(0, Min(100, 100 - (10 * loss)))
    IN  Max(0, Min(100 * QScale, latency_part + loss_part))

C14_LossPenaltySaturates ==
    \A p \in DOMAIN path_metrics :
        path_metrics[p].loss < 100
        => /\ path_metrics[p].quality =
                  SaturatingScore(path_metrics[p].latency, path_metrics[p].loss)
           /\ path_metrics[p].loss >= 10
              => path_metrics[p].quality = 6 * Max(0, 200 - path_metrics[p].latency)

\* C15: when the ping run raises, _measure_path returns exactly the
\* unreachable sentinel (latency 999, loss 100, not available, quality 0) and
\* the monitor goes on; and every stored measurement has
\* available = (loss < 100) and, when not available, quality 0.
C15_ProbeFailureGivesSentinel ==
    /\ \A p \in DOMAIN path_metrics :
          /\ path_metrics[p].available = (path_metrics[p].loss < 100)
          /\ ~path_metrics[p].available => path_metrics[p].quality = 0
          /\ net[p].exc
             => path_metrics[p] = [latency |-> 999, loss |-> 100,
                                   available |-> FALSE, quality |-> 0]
    /\ last_step = "probe" => pc \in {"probe", "detect"}

\* C15 witness: the probe of the first path has just returned from a ping run
\* that raised, its sentinel is stored and the second probe is in progress.
C15_Witness ==
    /\ last_step = "probe"
    /\ pc = "probe"
    /\ idx = 2
    /\ net["HQ-to-Site1"].exc
    /\ "probe" \in faults
    /\ "HQ-to-Site1" \in DOMAIN path_metrics
    /\ ~path_metrics["HQ-to-Site1"].available
    /\ path_metrics["HQ-to-Site1"].latency = 999

C17_LoopSurvivesFaults ==
    \A c \in 0..(MaxCycles - 1) :
        (cycle = c /\ faults # {}) ~> (cycle = c + 1)

\* C17 witness: the third cycle, in which a probe raised and the snapshot
\* write failed, has run to its end and the monitor sleeps.
C17_Witness ==
    /\ cycle = 3
    /\ faults = {"probe", "save"}
    /\ pc = "sleep"
    /\ last_step = "analyze"

\* the anomaly counter of path p, as _display_status reads it
AnomalyCount(ac, p) == dict_get(ac, p, 0)

\* C18: the anomaly counter of a path never decreases and is never reset; it
\* changes only in the anomaly-detection step, and then by +1; link-down
\* handling, packet-in handling, classification and failover leave it
\* unchanged.
C18_AnomalyCountMonotone ==
    [][\A p \in PathSet :
          /\ AnomalyCount(anomaly_counts', p) >= AnomalyCount(anomaly_counts, p)
          /\ AnomalyCount(anomaly_counts', p) # AnomalyCount(anomaly_counts, p)
             => /\ last_step' = "detect"
                /\ AnomalyCount(anomaly_counts', p) = AnomalyCount(anomaly_counts, p) + 1]_vars

\* C18 witness: the detection step has counted the second anomaly of the
\* path to Site1.
C18_Witness ==
    /\ last_step = "detect"
    /\ AnomalyCount(anomaly_counts, "HQ-to-Site1") = 2

\* the priority the classification of traffic is stated to give
StatedPriority(pkt) ==
    LET dscp == pkt.tos \div 4 IN
    IF ~pkt.ip THEN 1
    ELSE IF (pkt.l4 = "udp" /\ (pkt.sport \in VOIP_PORTS \/ pkt.dport \in VOIP_PORTS))
            \/ dscp = 46
    THEN 200
    ELSE IF (pkt.l4 = "tcp" /\ (pkt.sport \in HIGH_PRIORITY_PORTS
                                 \/ pkt.dport \in HIGH_PRIORITY_PORTS))
            \/ (32 <= dscp /\ dscp <= 38)
    THEN 150
    ELSE IF pkt.tos > 0 THEN 100
    ELSE 1

\* C19: the priority of the flow installed for a packet is 200 if the packet
\* is UDP on a VoIP port or carries DSCP 46; otherwise 150 if it is TCP on a
\* high-priority port or carries DSCP 32..38; otherwise 100 if its ToS is
\* non-zero; otherwise 1.  So every IPv4 packet with DSCP 46 gets 200, and
\* the priority is always one of 1, 100, 150, 200.
C19_PriorityByClass ==
    \A pkt \in last_pkt : \A i \in DOMAIN sent :
        sent[i].cmd = "ADD"
        => /\ sent[i].priority = StatedPriority(pkt)
           /\ sent[i].priority \in {1, 100, 150, 200}

\* how many times _recalculate_and_install_flows ran for p during the
\* latest step: each run logs one of its two first events
RecalcCount(p) ==
    Cardinality({i \in DOMAIN log_file :
                    /\ log_file[i].kind = "FAILOVER"
                    /\ log_file[i].msg \in {"Switching", "No alternative"}
                    /\ log_file[i].path = p})

\* the latest step handled a GRE port of switch d going down
LinkDownOn(d) ==
    /\ last_step = "port_status"
    /\ \E i \in DOMAIN log_file :
          log_file[i].kind = "TUNNEL_DOWN" /\ log_file[i].dpid = d

\* C20: on a link-down signal for switch d (a GRE port MODIFY with the link
\* down) the failover orchestration runs at once, in the handler, exactly
\* once for every path whose hq or site switch is d, with the status of
\* that path set to DOWN, and for no other path.
C20_LinkDownFailsAffectedPathsOver ==
    \A d \in Dpids : \A p \in PathSet :
        LinkDownOn(d)
        => IF d \in {hq_dpid(p), site_dpid(p)}
           THEN /\ RecalcCount(p) = 1
                /\ active_paths[p].status = STATUS_TUNNEL_DOWN
           ELSE RecalcCount(p) = 0

\* C20 witness: a GRE port of the switch of Site1 went down; the
\* orchestration ran for the path to Site1 and for no other path.
C20_Witness ==
    /\ LinkDownOn(2)
    /\ RecalcCount("HQ-to-Site1") = 1
    /\ active_paths["HQ-to-Site1"].status = STATUS_TUNNEL_DOWN
    /\ RecalcCount("HQ-to-Site2") = 0
    /\ RecalcCount("HQ-to-Site3") = 0

\* the latest step was one in which the failover orchestration may run
FailoverStep == last_step \in {"analyze", "port_status"}

LastEntry(p) == performance_history[p][Len(performance_history[p])]

\* C22: the classification step never uses a stale measurement: for every
\* path p the measurement it classifies has the latency and the loss of the
\* last entry of the history of p, which was appended in the same cycle, and
\* the anomaly check of that cycle ran on the history ending with that entry.
C22_ClassifiesFreshMeasurement ==
    Analyzed
    => \A p \in PathSet :
          /\ p \in DOMAIN path_metrics
          /\ performance_history[p] # <<>>
          /\ path_metrics[p].latency = LastEntry(p).latency
          /\ path_metrics[p].loss = LastEntry(p).loss
          /\ measured_in[p] = cycle
          /\ detected_on.cycle = cycle
          /\ detected_on.history[p] = performance_history[p]

\* C22 witness: the path to Site1 turned critical between two cycles, and
\* the classification step of the later cycle classified the new measurement.
C22_Witness ==
    /\ Analyzed
    /\ Len(performance_history["HQ-to-Site1"]) >= 2
    /\ performance_history["HQ-to-Site1"][Len(performance_history["HQ-to-Site1"]) - 1].latency = 10
    /\ LastEntry("HQ-to-Site1").latency = 150
    /\ path_metrics["HQ-to-Site1"].latency = 150
    /\ active_paths["HQ-to-Site1"].status = STATUS_CRITICAL

\* C23: the alternative path a failover chooses is never itself a path that
\* needs action: when it is selected its stored status is not DOWN (nor the
\* DOWN that the same link-down signal has set) and its current measurement
\* has no latency above the critical threshold of 100 ms.
C23_AlternativeNeedsNoAction ==
    \A i \in DOMAIN log_file :
        (log_file[i].kind = "FAILOVER" /\ log_file[i].msg = "Switching")
        => /\ log_file[i].alt_status \notin {STATUS_DOWN, STATUS_TUNNEL_DOWN}
           /\ path_metrics[log_file[i].arg].latency <= LATENCY_CRITICAL

\* C24: the selection of an alternative always sees a consistent table of
\* measurements: whenever it runs, from the classification step or from a
\* link-down signal that arrives while the probes of a cycle are in
\* progress, the stored measurements of all paths were produced in one and
\* the same measurement phase, and the table is neither empty nor partial.
C24_SelectionSeesOnePhase ==
    (FailoverStep /\ \E p \in PathSet : RecalcRan(p))
    => /\ DOMAIN path_metrics = PathSet
       /\ \A p, q \in PathSet : measured_in[p] = measured_in[q]

====
